---- MODULE Spec2Model ----
(***************************************************************************)
(* Model of the IDA plugin "Quick Binary Reload"                           *)
(* (reload_binary_plugin.py): ReloadBinaryHandler.activate().              *)
(*                                                                         *)
(* A path is a sequence of tokens.  The tokens "/" and "." are the path    *)
(* separator and the dot; every other token stands for a run of            *)
(* characters that holds neither.  The empty sequence is the empty string. *)
(* A script line is a record; the script is the sequence of its lines.     *)
(***************************************************************************)
EXTENDS Integers, Sequences, FiniteSets, TLC

VARIABLES
    host_input,      \* what ida_nalt.get_input_file_path() reports
    host_idb,        \* what ida_loader.get_path(PATH_TYPE_IDB) reports
    exists,          \* the paths that exist on disk
    script,          \* content on disk of the file at the script path
    spawned,         \* the processes launched by subprocess.Popen, in order
    host_running,    \* FALSE once ida_pro.qexit has ended the host
    nact,            \* number of activations so far
    pc,              \* position of activate()
    input_path,      \* local input_path
    idb_path,        \* local idb_path
    answer,          \* local result (the button ask_yn returned)
    current_idb_base,\* local current_idb_base
    binary_idb_base, \* local binary_idb_base
    batch_path,      \* local batch_path
    f,               \* lines written to the open file object f
    i,               \* index of the running `for ext in extensions` loop
    result,          \* value activate() returned
    console,         \* print() lines of this activation
    warnings,        \* ida_kernwin.warning notices of this activation
    trace,           \* steps this activation has taken, in order
    pre              \* disk and processes when this activation began

vars == <<host_input, host_idb, exists, script, spawned, host_running, nact,
          pc, input_path, idb_path, answer, current_idb_base,
          binary_idb_base, batch_path, f, i, result, console, warnings,
          trace, pre>>

hostv == <<host_input, host_idb>>
localv == <<input_path, idb_path, answer, current_idb_base, binary_idb_base,
            batch_path, f, i>>

----------------------------------------------------------------------------
(* Bounds *)

MaxActivations == 2

----------------------------------------------------------------------------
(* Values of the host API *)

ASKBTN_YES == 1
\* the buttons ask_yn can return: Yes, No (0), Cancel (-1)
Buttons == {ASKBTN_YES, 0, -1}

\* sys.executable
ida_exe == <<"/", "ida", ".", "exe">>

extensions == <<<<".", "id0">>, <<".", "id1">>, <<".", "id2">>,
                <<".", "nam">>, <<".", "til">>, <<".", "i64">>>>

ReloadSuffix == <<"_reload", ".", "bat">>

\* Paths the host may report for the input binary ("" included).
InputPaths == { <<>>,
                <<"/", "a", ".", "bin">>,
                <<"/", "a", ".", "i64">>,
                <<"/", "d", "/", "a">>,
                <<"/", "b", ".", "bin">> }

\* Paths the host may report for the database ("" included).
IdbPaths == { <<>>,
              <<"/", "a", ".", "i64">>,
              <<"/", "d", "/", "a", ".", "i64">> }

\* Files that may be on disk before the first activation.
DiskCandidates == { <<"/", "a", ".", "bin">>,
                    <<"/", "a", ".", "i64">>,
                    <<"/", "d", "/", "a">>,
                    <<"/", "a", ".", "id0">>,
                    <<"/", "d", "/", "a", ".", "i64">>,
                    <<"/", "d", "/", "a", ".", "nam">> }

----------------------------------------------------------------------------
(* Pure helpers *)

\* Largest index of token t in p, 0 when absent (str.rfind, 1-based).
RECURSIVE rfind(_, _, _)
rfind(p, t, k) ==
    IF k = 0 THEN 0
    ELSE IF p[k] = t THEN k
    ELSE rfind(p, t, k - 1)

\* TRUE iff some token of p[lo..hi-1] is not a dot.
RECURSIVE HasNonDot(_, _, _)
HasNonDot(p, lo, hi) ==
    IF lo >= hi THEN FALSE
    ELSE IF p[lo] # "." THEN TRUE
    ELSE HasNonDot(p, lo + 1, hi)

\* os.path.splitext(p)[0]: cut at the last dot of the last component,
\* unless that component holds only leading dots before it.
splitext_root(p) ==
    LET sepIndex == rfind(p, "/", Len(p))
        dotIndex == rfind(p, ".", Len(p))
    IN  IF dotIndex > sepIndex /\ HasNonDot(p, sepIndex + 1, dotIndex)
        THEN SubSeq(p, 1, dotIndex - 1)
        ELSE p

\* Variant: the test `input_path is None`, never true of a str.
FalsyIsNone(p) == FALSE

\* `not x` for a str
Falsy(p) == Len(p) = 0

\* Script lines
EchoOffLine == [op |-> "echo_off", path |-> <<>>, exe |-> <<>>, flags |-> <<>>, quiet |-> FALSE]
DelayLine == [op |-> "timeout", path |-> <<>>, exe |-> <<>>, flags |-> <<"/t", "1", "/nobreak">>, quiet |-> TRUE]
DelLine(p) == [op |-> "del", path |-> p, exe |-> <<>>, flags |-> <<"/F", "/Q">>, quiet |-> TRUE]
StartLine(exe, p) == [op |-> "start", path |-> p, exe |-> exe, flags |-> <<"-A", "-c">>, quiet |-> FALSE]
SelfDelLine(p) == [op |-> "del", path |-> p, exe |-> <<>>, flags |-> <<"/F", "/Q">>, quiet |-> FALSE]

NExt == Len(extensions)

\* The value `result` holds before activate() has returned anything.
NoResult == -1

Snapshot == [exists |-> exists, script |-> script, spawned |-> spawned]

----------------------------------------------------------------------------
(* Initial state: the plugin is registered, the host is running, and the   *)
(* handler has not been triggered.                                         *)

Init ==
    /\ host_input \in InputPaths
    /\ host_idb \in IdbPaths
    /\ exists \in SUBSET DiskCandidates
    /\ script = <<>>
    /\ spawned = <<>>
    /\ host_running = TRUE
    /\ nact = 0
    /\ pc = "idle"
    /\ input_path = <<>>
    /\ idb_path = <<>>
    /\ answer = 0
    /\ current_idb_base = <<>>
    /\ binary_idb_base = <<>>
    /\ batch_path = <<>>
    /\ f = <<>>
    /\ i = 1
    /\ result = NoResult
    /\ console = <<>>
    /\ warnings = <<>>
    /\ trace = <<>>
    /\ pre = [exists |-> exists, script |-> <<>>, spawned |-> <<>>]

----------------------------------------------------------------------------
(* Leaving activate() *)

\* print(msg); ida_kernwin.warning(w) unless w is ""; return r
Return(r, msg, w) ==
    /\ pc' = "returned"
    /\ result' = r
    /\ console' = Append(console, msg)
    /\ warnings' = IF w = "" THEN warnings ELSE Append(warnings, w)

\* Variant: the outer handler re-raises to the host.
OuterExceptReraise ==
    /\ pc' = "propagated"
    /\ result' = result
    /\ console' = Append(console, "[Reload] Exception occurred")
    /\ warnings' = warnings

\* except Exception of the outer try
OuterExcept ==
    Return(0, "[Reload] Exception occurred", "Error during reload")

\* except Exception of the try around the script
InnerExcept ==
    Return(0, "[Reload] Error creating reload script",
           "Failed to create reload script")

\* print(msg) on the way
Log(msg) == console' = Append(console, msg)

\* Variant: the test `result == ASKBTN_NO`, which lets Cancel through.
DeclinedOnlyNo(r) == r = 0

\* `if result != ida_kernwin.ASKBTN_YES`
Declined(r) == r # ASKBTN_YES

----------------------------------------------------------------------------
(* Actions *)

\* The host calls activate() on the hotkey or the menu entry.
Activate ==
    /\ host_running
    /\ pc \in {"idle", "returned", "propagated"}
    /\ nact < MaxActivations
    /\ nact' = nact + 1
    /\ pc' = "get_input"
    /\ input_path' = <<>>
    /\ idb_path' = <<>>
    /\ answer' = 0
    /\ current_idb_base' = <<>>
    /\ binary_idb_base' = <<>>
    /\ batch_path' = <<>>
    /\ f' = <<>>
    /\ i' = 1
    /\ result' = NoResult
    /\ console' = <<>>
    /\ warnings' = <<>>
    /\ trace' = <<>>
    /\ pre' = Snapshot
    /\ UNCHANGED <<hostv, exists, script, spawned, host_running>>

\* input_path = ida_nalt.get_input_file_path(); if not input_path: ...
GetInputFilePath ==
    /\ pc = "get_input"
    /\ input_path' = host_input
    /\ IF Falsy(host_input)
       THEN /\ Return(0, "[Reload] Error: Cannot determine input file path",
                      "Cannot determine the input file path!")
            /\ trace' = trace
       ELSE /\ pc' = "check_exists"
            /\ trace' = Append(trace, "resolve_input")
            /\ UNCHANGED <<result, console, warnings>>
    /\ UNCHANGED <<hostv, exists, script, spawned, host_running, nact,
                   idb_path, answer, current_idb_base, binary_idb_base,
                   batch_path, f, i, pre>>

\* if not os.path.exists(input_path): ...
CheckExists ==
    /\ pc = "check_exists"
    /\ IF input_path \notin exists
       THEN /\ Return(0, "[Reload] Error: File not found", "File not found")
            /\ trace' = trace
       ELSE /\ pc' = "ask_yn"
            /\ trace' = Append(trace, "validate")
            /\ Log("[Reload] Reloading binary from")
            /\ UNCHANGED <<result, warnings>>
    /\ UNCHANGED <<hostv, exists, script, spawned, host_running, nact,
                   localv, pre>>

\* result = ida_kernwin.ask_yn(...); if result != ASKBTN_YES: return 1
AskYN ==
    /\ pc = "ask_yn"
    /\ \E b \in Buttons :
        /\ answer' = b
        /\ IF Declined(b)
           THEN /\ Return(1, "[Reload] Cancelled by user", "")
                /\ trace' = Append(trace, "decline")
           ELSE /\ pc' = "get_idb"
                /\ trace' = Append(trace, "confirm")
                /\ Log("[Reload] Auto-reload enabled")
                /\ UNCHANGED <<result, warnings>>
    /\ UNCHANGED <<hostv, exists, script, spawned, host_running, nact,
                   input_path, idb_path, current_idb_base, binary_idb_base,
                   batch_path, f, i, pre>>

\* Variant: idb_path is used without the `if idb_path` test.
GetIdbPathUnchecked ==
    /\ pc = "get_idb"
    /\ idb_path' = host_idb
    /\ pc' = "open"
    /\ trace' = Append(trace, "resolve_idb")
    /\ UNCHANGED <<hostv, exists, script, spawned, host_running, nact,
                   input_path, answer, current_idb_base, binary_idb_base,
                   batch_path, f, i, result, console, warnings, pre>>

\* idb_path = ida_loader.get_path(PATH_TYPE_IDB); if idb_path: ... else: ...
GetIdbPath ==
    /\ pc = "get_idb"
    /\ idb_path' = host_idb
    /\ IF Falsy(host_idb)
       THEN /\ Return(0, "[Reload] Could not determine IDB path",
                      "Could not determine IDB path")
            /\ trace' = trace
       ELSE /\ pc' = "open"
            /\ trace' = Append(trace, "resolve_idb")
            /\ UNCHANGED <<result, console, warnings>>
    /\ UNCHANGED <<hostv, exists, script, spawned, host_running, nact,
                   input_path, answer, current_idb_base, binary_idb_base,
                   batch_path, f, i, pre>>

\* A host query or the dialog raises: the outer handler runs.
HostCallRaises ==
    /\ pc \in {"get_input", "ask_yn", "get_idb"}
    /\ OuterExcept
    /\ trace' = Append(trace, "raise")
    /\ UNCHANGED <<hostv, exists, script, spawned, host_running, nact,
                   localv, pre>>

\* The three assignments before `with open(batch_path, 'w') as f`.
ComputePaths ==
    /\ current_idb_base' = splitext_root(idb_path)
    /\ binary_idb_base' = splitext_root(input_path)
    /\ batch_path' = splitext_root(idb_path) \o ReloadSuffix

\* open(batch_path, 'w') succeeds: the file exists and is empty.
OpenScript ==
    /\ pc = "open"
    /\ ComputePaths
    /\ exists' = exists \cup {batch_path'}
    /\ script' = <<>>
    /\ f' = <<>>
    /\ pc' = "write_header"
    /\ UNCHANGED <<hostv, spawned, host_running, nact, input_path, idb_path,
                   answer, i, result, console, warnings, trace, pre>>

\* open(batch_path, 'w') raises: nothing is created.
OpenFails ==
    /\ pc = "open"
    /\ ComputePaths
    /\ InnerExcept
    /\ trace' = Append(trace, "raise")
    /\ UNCHANGED <<hostv, exists, script, spawned, host_running, nact,
                   input_path, idb_path, answer, f, i, pre>>

\* f.write('@echo off\n'); f.write('timeout /t 1 /nobreak >nul\n')
WriteHeader ==
    /\ pc = "write_header"
    /\ f' = f \o <<EchoOffLine, DelayLine>>
    /\ i' = 1
    /\ pc' = "del_current"
    /\ UNCHANGED <<hostv, exists, script, spawned, host_running, nact,
                   input_path, idb_path, answer, current_idb_base,
                   binary_idb_base, batch_path, result, console, warnings,
                   trace, pre>>

\* One pass of the first `for ext in extensions` loop.
WriteDelCurrent ==
    /\ pc = "del_current"
    /\ LET file_to_delete == current_idb_base \o extensions[i]
       IN  f' = IF file_to_delete \in exists
                THEN Append(f, DelLine(file_to_delete))
                ELSE f
    /\ IF i < NExt
       THEN /\ i' = i + 1
            /\ pc' = pc
       ELSE /\ i' = 1
            /\ pc' = IF current_idb_base # binary_idb_base
                     THEN "del_binary" ELSE "relaunch"
    /\ UNCHANGED <<hostv, exists, script, spawned, host_running, nact,
                   input_path, idb_path, answer, current_idb_base,
                   binary_idb_base, batch_path, result, console, warnings,
                   trace, pre>>

\* One pass of the second `for ext in extensions` loop.
WriteDelBinary ==
    /\ pc = "del_binary"
    /\ f' = Append(f, DelLine(binary_idb_base \o extensions[i]))
    /\ IF i < NExt
       THEN /\ i' = i + 1
            /\ pc' = pc
       ELSE /\ i' = 1
            /\ pc' = "relaunch"
    /\ UNCHANGED <<hostv, exists, script, spawned, host_running, nact,
                   input_path, idb_path, answer, current_idb_base,
                   binary_idb_base, batch_path, result, console, warnings,
                   trace, pre>>

\* Variant: the relaunch line opens the database path, not the input binary.
WriteRelaunchIdb ==
    /\ pc = "relaunch"
    /\ f' = Append(f, StartLine(ida_exe, idb_path))
    /\ pc' = "self_delete"
    /\ UNCHANGED <<hostv, exists, script, spawned, host_running, nact,
                   input_path, idb_path, answer, current_idb_base,
                   binary_idb_base, batch_path, i, result, console, warnings,
                   trace, pre>>

\* f.write(f'start "" "{ida_exe}" -A -c "{input_path}"\n')
WriteRelaunch ==
    /\ pc = "relaunch"
    /\ f' = Append(f, StartLine(ida_exe, input_path))
    /\ pc' = "self_delete"
    /\ UNCHANGED <<hostv, exists, script, spawned, host_running, nact,
                   input_path, idb_path, answer, current_idb_base,
                   binary_idb_base, batch_path, i, result, console, warnings,
                   trace, pre>>

\* f.write(f'del /F /Q "{batch_path}"\n')
WriteSelfDelete ==
    /\ pc = "self_delete"
    /\ f' = Append(f, SelfDelLine(batch_path))
    /\ pc' = "close"
    /\ UNCHANGED <<hostv, exists, script, spawned, host_running, nact,
                   input_path, idb_path, answer, current_idb_base,
                   binary_idb_base, batch_path, i, result, console, warnings,
                   trace, pre>>

\* The with-block ends: f is flushed and closed.
CloseScript ==
    /\ pc = "close"
    /\ script' = f
    /\ pc' = "popen"
    /\ trace' = Append(trace, "generate")
    /\ Log("[Reload] Created reload script")
    /\ UNCHANGED <<hostv, exists, spawned, host_running, nact, localv,
                   result, warnings, pre>>

WritePcs == {"write_header", "del_current", "del_binary", "relaunch",
             "self_delete", "close"}

\* A write, the flush or the close raises (disk full, I/O error): the
\* with-block closes f, some prefix of what was written is on disk, and the
\* inner handler runs.
WriteFails ==
    /\ pc \in WritePcs
    /\ \E k \in 0..Len(f) : script' = SubSeq(f, 1, k)
    /\ InnerExcept
    /\ trace' = Append(trace, "raise")
    /\ UNCHANGED <<hostv, exists, spawned, host_running, nact, localv, pre>>

\* Variant: the child is waited for (subprocess.call).
PopenWaits ==
    /\ pc = "popen"
    /\ spawned' = Append(spawned, [args |-> batch_path, shell |-> TRUE,
                                   waited |-> TRUE])
    /\ pc' = "qexit"
    /\ trace' = Append(trace, "spawn")
    /\ Log("[Reload] Closing IDA...")
    /\ UNCHANGED <<hostv, exists, script, host_running, nact, localv,
                   result, warnings, pre>>

\* subprocess.Popen([batch_path], shell=True, ...): not waited for.
Popen ==
    /\ pc = "popen"
    /\ spawned' = Append(spawned, [args |-> batch_path, shell |-> TRUE,
                                   waited |-> FALSE])
    /\ pc' = "qexit"
    /\ trace' = Append(trace, "spawn")
    /\ Log("[Reload] Closing IDA...")
    /\ UNCHANGED <<hostv, exists, script, host_running, nact, localv,
                   result, warnings, pre>>

\* Variant: a failed launch is swallowed and the host is closed anyway.
PopenFailsSwallowed ==
    /\ pc = "popen"
    /\ pc' = "qexit"
    /\ trace' = Append(trace, "raise")
    /\ UNCHANGED <<hostv, exists, script, spawned, host_running, nact,
                   localv, result, console, warnings, pre>>

\* subprocess.Popen raises.
PopenFails ==
    /\ pc = "popen"
    /\ InnerExcept
    /\ trace' = Append(trace, "raise")
    /\ UNCHANGED <<hostv, exists, script, spawned, host_running, nact,
                   localv, pre>>

\* ida_pro.qexit(0): the host process ends; activate() never returns.
QExit ==
    /\ pc = "qexit"
    /\ host_running' = FALSE
    /\ pc' = "exited"
    /\ trace' = Append(trace, "exit")
    /\ UNCHANGED <<hostv, exists, script, spawned, nact, localv, result,
                   console, warnings, pre>>

Next ==
    \/ Activate
    \/ GetInputFilePath
    \/ CheckExists
    \/ AskYN
    \/ GetIdbPath
    \/ HostCallRaises
    \/ OpenScript
    \/ OpenFails
    \/ WriteHeader
    \/ WriteDelCurrent
    \/ WriteDelBinary
    \/ WriteRelaunch
    \/ WriteSelfDelete
    \/ CloseScript
    \/ WriteFails
    \/ Popen
    \/ PopenFails
    \/ QExit

Spec == Init /\ [][Next]_vars

----------------------------------------------------------------------------
(* Vocabulary of the properties *)

Last(q) == q[Len(q)]
Has(q, x) == \E k \in 1..Len(q) : q[k] = x
Count(q, x) == Cardinality({k \in 1..Len(q) : q[k] = x})

\* This activation changed neither the disk nor the set of processes.
NoSideEffects ==
    /\ exists = pre.exists
    /\ script = pre.script
    /\ spawned = pre.spawned
    /\ host_running

\* The with-block of this activation ended normally: the script is on disk.
Generated == Has(trace, "generate")

\* Positions of the script's lines of each kind.
StartAt == {k \in 1..Len(script) : script[k].op = "start"}
DelAt(p) == {k \in 1..Len(script) : script[k].op = "del" /\ script[k].path = p}

SuccessTrace == <<"resolve_input", "validate", "confirm", "resolve_idb",
                  "generate", "spawn", "exit">>

----------------------------------------------------------------------------
(* C1: the host is terminated only after the relaunch script has been      *)
(* completely written and closed and the script process launched; when a   *)
(* step before termination fails, activate() returns with the host still   *)
(* running.                                                                *)

C1_ExitOnlyAfterLaunch ==
    /\ ~host_running =>
        /\ pc = "exited"
        /\ SubSeq(trace, Len(trace) - 2, Len(trace)) = <<"generate", "spawn", "exit">>
        /\ ~Has(trace, "raise")
        /\ batch_path \in exists
        /\ script = f
        /\ Last(script) = SelfDelLine(batch_path)
        /\ Len(spawned) = Len(pre.spawned) + 1
        /\ Last(spawned).args = batch_path
        /\ warnings = <<>>
    /\ (Has(trace, "raise") \/ pc = "returned") => host_running

C1_Witness ==
    /\ nact = 2
    /\ pc = "exited"
    /\ ~host_running
    /\ Len(spawned) = 1

----------------------------------------------------------------------------
(* C2: after any run of activate(), either the full script was written and *)
(* launched, or no script file (partial or complete) remains on disk and   *)
(* no process was spawned.                                                 *)

C2_Atomic ==
    pc = "returned" =>
        \/ /\ Generated
           /\ Len(spawned) = Len(pre.spawned) + 1
        \/ /\ batch_path \notin exists
           /\ spawned = pre.spawned

----------------------------------------------------------------------------
(* C3: when the user answers anything other than Yes, activate() writes no *)
(* script, spawns no process, leaves the host running and returns the      *)
(* cancelled result 1; disk and host are as before the invocation.         *)

C3_DeclineIsNoOp ==
    /\ (Has(trace, "decline") =>
            /\ pc = "returned"
            /\ answer # ASKBTN_YES
            /\ result = 1
            /\ warnings = <<>>
            /\ Last(console) = "[Reload] Cancelled by user"
            /\ NoSideEffects)
    /\ (Has(trace, "confirm") => answer = ASKBTN_YES)

C3_Witness ==
    /\ Has(trace, "decline")
    /\ answer = -1
    /\ nact = 2
    /\ pre.exists # {}

----------------------------------------------------------------------------
(* C4: when the host reports an empty input path, or a path that does not  *)
(* exist on disk, activate() reports the corresponding error and returns   *)
(* 0 with no side effects: the dialog is never reached, no file is         *)
(* created, no process is spawned and the host keeps running.              *)

C4_InputErrors ==
    /\ (host_input = <<>> /\ ~Has(trace, "raise") /\ pc \notin {"idle", "get_input"}) =>
            /\ pc = "returned"
            /\ trace = <<>>
            /\ result = 0
            /\ warnings = <<"Cannot determine the input file path!">>
            /\ NoSideEffects
    /\ (host_input # <<>> /\ host_input \notin pre.exists
            /\ pc \notin {"idle", "get_input", "check_exists"} /\ ~Has(trace, "raise")) =>
            /\ pc = "returned"
            /\ trace = <<"resolve_input">>
            /\ result = 0
            /\ warnings = <<"File not found">>
            /\ NoSideEffects
    /\ ((host_input = <<>> \/ host_input \notin pre.exists) =>
            /\ ~Has(trace, "validate")
            /\ pc \notin {"ask_yn", "get_idb", "open", "popen", "qexit", "exited"}
            /\ NoSideEffects)

C4_Witness ==
    /\ pc = "returned"
    /\ trace = <<"resolve_input">>
    /\ host_input \notin exists
    /\ exists # {}

----------------------------------------------------------------------------
(* C5: when, after the user confirmed, the host supplies no database path, *)
(* activate() reports a path-resolution error and returns 0 with no side   *)
(* effects: no script, no process, host not terminated.                    *)

C5_NoIdbPath ==
    (host_idb = <<>> /\ Has(trace, "confirm")) =>
        /\ ~Has(trace, "resolve_idb")
        /\ pc \in {"get_idb", "returned"}
        /\ NoSideEffects
        /\ (pc = "returned" /\ ~Has(trace, "raise")) =>
            /\ result = 0
            /\ warnings = <<"Could not determine IDB path">>
            /\ Last(console) = "[Reload] Could not determine IDB path"

C5_Witness ==
    /\ host_idb = <<>>
    /\ pc = "returned"
    /\ trace = <<"resolve_input", "validate", "confirm">>

----------------------------------------------------------------------------
(* C6: with database stem S and input stem T, the generated script holds a *)
(* deletion command for S+ext and (when S # T) for T+ext for every ext of  *)
(* the fixed set, exactly one per extension when S = T, whichever of those *)
(* files exist on disk.                                                    *)

C6_AllExtensionsDeleted ==
    Generated =>
        \A e \in 1..NExt :
            /\ Cardinality(DelAt(current_idb_base \o extensions[e])) = 1
            /\ Cardinality(DelAt(binary_idb_base \o extensions[e])) = 1

----------------------------------------------------------------------------
(* C7: every generated script is, in order: the startup delay (after the   *)
(* echo-off directive), then only deletion commands, then exactly one      *)
(* relaunch command naming the process's own executable and the validated  *)
(* input binary with the flags -A and -c, and last the deletion of the     *)
(* script itself.                                                          *)

C7_ScriptOrder ==
    Generated =>
        LET n == Len(script) IN
        /\ n >= 4
        /\ script[1] = EchoOffLine
        /\ script[2] = DelayLine
        /\ \A k \in 3..(n - 2) : script[k].op = "del" /\ script[k].quiet
        /\ StartAt = {n - 1}
        /\ script[n - 1].exe = ida_exe
        /\ script[n - 1].path = host_input
        /\ host_input \in pre.exists
        /\ script[n - 1].flags = <<"-A", "-c">>
        /\ script[n].op = "del"
        /\ script[n].path = batch_path
        /\ batch_path \in exists
        /\ batch_path # host_input

C7_Witness ==
    /\ Generated
    /\ Len(script) > 10
    /\ host_input # host_idb
    /\ current_idb_base # binary_idb_base

----------------------------------------------------------------------------
(* C8: no exception leaves activate(): whatever the host queries, the      *)
(* dialog, the file writes and the launch do, activate() either ends the   *)
(* host on the success path or returns a value; every error is logged and  *)
(* shown to the user in a notice before 0 is returned.                     *)

C8_NothingPropagates ==
    /\ pc # "propagated"
    /\ pc = "returned" => result \in {0, 1}
    /\ (pc = "returned" /\ result = 0) =>
            /\ Len(warnings) = 1
            /\ Len(console) >= 1
    /\ Has(trace, "raise") =>
            /\ pc = "returned"
            /\ result = 0
            /\ Last(trace) = "raise"
            /\ Count(trace, "raise") = 1
            /\ Last(warnings) \in {"Error during reload",
                                   "Failed to create reload script"}

C8_Witness ==
    /\ Has(trace, "raise")
    /\ pc = "returned"
    /\ Last(warnings) = "Error during reload"
    /\ Has(trace, "validate")

----------------------------------------------------------------------------
(* C9: an activation that ends with host termination took each step once   *)
(* and in the order resolve input, validate, confirm, generate, spawn,     *)
(* exit; it spawned exactly one child and did not wait for it; no          *)
(* activation spawns more than one child.                                  *)

C9_LinearOnce ==
    /\ pc = "exited" =>
            /\ trace = SuccessTrace
            /\ Len(spawned) = Len(pre.spawned) + 1
            /\ ~Last(spawned).waited
    /\ Len(spawned) <= Len(pre.spawned) + 1
    /\ \A k \in 1..Len(trace) : trace[k] = SuccessTrace[k] \/ (k = Len(trace) /\ trace[k] \in {"raise", "decline"})

C9_Witness ==
    /\ pc = "exited"
    /\ Len(spawned) = 1
    /\ Len(script) > 4

----------------------------------------------------------------------------
(* C10: no deletion command of the generated script that runs before the   *)
(* relaunch targets the input binary path the relaunch opens.              *)

C10_InputNotDeleted ==
    Generated =>
        \A k \in DelAt(input_path) : \A r \in StartAt : k > r

====
